---- MODULE Spec2Model ----
(***************************************************************************)
(* Model of the orchestration core of doj-legal-researcher-agent.           *)
(*                                                                         *)
(*   Spec            MetaAgentOrchestrator (meta_orchestrator.py) with its *)
(*                   MetaAgent (agents/meta_agent.py) and the three        *)
(*                   managed agents                                        *)
(*   MultiSpec       MultiAgentOrchestrator (multi_agent_orchestrator.py), *)
(*                   sequential and adaptive graph                         *)
(*   ResearchSpec    ResearchOrchestrator (orchestrator.py)                *)
(*   ConvergenceSpec _analyze_system_convergence on its own                *)
(*   StrategySpec    the strategy decision of MetaAgent.process on its own *)
(*   StoreSpec       the capped lists of SharedMemoryStore, AgentMemory,   *)
(*                   the message queue and the decision history            *)
(*   KnowledgeSpec   share_knowledge and get_shared_knowledge              *)
(*   BatchSpec       _execute_agent_group_parallel on its own              *)
(*   OptimizeSpec    _optimize_coordination of the MetaAgent on its own    *)
(*   EvaluationSpec  _meta_evaluation_node and its routing on their own    *)
(*                                                                         *)
(* The state is the workflow state (the channels of the StateGraph), the   *)
(* MetaAgent's SystemState and what run() returns.  In the three workflow  *)
(* specifications the contents of SharedMemoryStore and of the agents'     *)
(* private memories are not part of it; StoreSpec, KnowledgeSpec and       *)
(* BatchSpec carry the store as the shared_memory key of the state.        *)
(*                                                                         *)
(* The workflows are StateGraphs over a TypedDict.  The nodes return keys  *)
(* that MultiAgentState declares (processing_round, urls_to_process, ...)  *)
(* and keys it does not declare (meta_execution_plan,                      *)
(* meta_evaluation_completed, meta_recommendation, ...).  Declared keys    *)
(* are merged with their reducers.  Whether a key outside the schema       *)
(* reaches the next node is decided by the graph library, which is not     *)
(* part of the repository: keep_undeclared takes both answers.             *)
(***************************************************************************)
EXTENDS Integers, Sequences, FiniteSets, TLC

\* ---------------------------------------------------------------- bounds
MaxUrls == 6
MaxRounds == 3
MaxFaults == 2
MaxCases == 6        \* case records in a state handed to the convergence analysis
MaxFailed == 2       \* failed urls in a state handed to the convergence analysis
MaxAppends == 3      \* appends to the capped lists of the store
MaxShares == 3       \* shares made through share_knowledge

\* ------------------------------------------------------ program constants
SCENARIO_A_BACKLOG == 12
RESEARCH_BATCH == 5
MIN_CASES == 5
MIN_ROUNDS == 2
DECISION_HISTORY_CAP == 50
OPTIMIZATION_INSIGHTS_CAP == 20
BACKLOG_BOTTLENECK == 20
COMMUNICATION_LOG_CAP == 1000
GLOBAL_INSIGHTS_CAP == 500
LEARNED_PATTERNS_CAP == 100
INTERACTION_HISTORY_CAP == 200

META == "meta_agent"
RESEARCH == "research_agent"
EVALUATION == "evaluation_agent"
LEGAL == "legal_intelligence_agent"

managed_agents == <<RESEARCH, EVALUATION, LEGAL>>

CoordinationStrategy == {"sequential", "parallel", "adaptive", "hierarchical", "load_balanced"}

VARIABLES
    pc,                      \* workflow position of run()
    max_processing_rounds,   \* AgentCoordinationConfig.max_processing_rounds
    keep_undeclared,         \* does a key outside MultiAgentState reach later nodes
    zero_deadline,           \* every AgentTask is created with a deadline already passed
    coordination_strategy,   \* AgentCoordinationConfig.coordination_strategy
    state,                   \* the declared channels of MultiAgentState
    undeclared,              \* keys returned by nodes that MultiAgentState does not declare
    meta_agent,              \* MetaAgent object: system_state, task_counter, histories
    results,                 \* what run() returned
    submitted,               \* history: how often each url went to the extractor
    trace                    \* history: steps executed and failures seen in this run

\* what the constructor fixes for the whole run
config == <<max_processing_rounds, keep_undeclared, zero_deadline, coordination_strategy>>

vars == <<pc, config, state, undeclared, meta_agent, results, submitted, trace>>

\* ---------------------------------------------------------------- helpers
Min(a, b) == IF a <= b THEN a ELSE b

RECURSIVE SeqToSet(_)
SeqToSet(s) == IF s = <<>> THEN {} ELSE {Head(s)} \cup SeqToSet(Tail(s))

Take(s, k) == SubSeq(s, 1, Min(k, Len(s)))

RECURSIVE FilterOut(_, _)
FilterOut(s, drop) ==
    IF s = <<>> THEN <<>>
    ELSE IF Head(s) \in drop THEN FilterOut(Tail(s), drop)
         ELSE <<Head(s)>> \o FilterOut(Tail(s), drop)

Urls(n) == [i \in 1..n |-> i]

\* backlog sizes the work source returns: every size up to MaxUrls, and the
\* twelve items of spec scenario A
BacklogSizes == 0..MaxUrls \cup {SCENARIO_A_BACKLOG}

\* the meta workflow is also started on a backlog one above the bottleneck
\* threshold of _identify_bottlenecks, the only input that makes it select the
\* load_balanced strategy
MetaBacklogSizes == BacklogSizes \cup {BACKLOG_BOTTLENECK + 1}

AllUrls == 1..(IF MaxUrls > BACKLOG_BOTTLENECK + 1 THEN MaxUrls ELSE BACKLOG_BOTTLENECK + 1)

Message(from, to, type) == [from |-> from, to |-> to, type |-> type]

\* ------------------------------------------------------------ plan shapes
NoPlan ==
    [present |-> FALSE, coordination_mode |-> "sequential", execution_order |-> <<>>,
     parallel_groups |-> <<>>, meta_oversight |-> FALSE, fallback_mode |-> FALSE]

\* a fallback plan that names the hierarchical mode
_fallback_execution_plan_hierarchical ==
    [present |-> TRUE, coordination_mode |-> "hierarchical",
     execution_order |-> <<RESEARCH, LEGAL, EVALUATION>>, parallel_groups |-> <<>>,
     meta_oversight |-> TRUE, fallback_mode |-> TRUE]

_fallback_execution_plan ==
    [present |-> TRUE, coordination_mode |-> "sequential",
     execution_order |-> <<RESEARCH, LEGAL, EVALUATION>>,
     parallel_groups |-> <<>>, meta_oversight |-> FALSE, fallback_mode |-> TRUE]

\* ------------------------------------------------------------------- Init
\* run() builds initial_state (meta_orchestrator.py:793-818); the objects are
\* those of MetaAgentOrchestrator.__init__ and MetaAgent.__init__.
\* final_result: None, or the counts of an AnalysisResult
NoFinalResult ==
    [present |-> FALSE, cases |-> 0, total_cases |-> 0, successful_extractions |-> 0,
     failed_extractions |-> 0]

InitialState ==
    [urls_to_process |-> <<>>, analyzed_cases |-> <<>>, failed_urls |-> <<>>,
     evaluation_result |-> FALSE, final_result |-> NoFinalResult,
     research_agent_state |-> [present |-> FALSE, cases_analyzed |-> 0],
     evaluation_agent_state |-> [present |-> FALSE, evaluations_completed |-> 0],
     legal_intelligence_agent_state |-> [present |-> FALSE],
     agent_communication_queue |-> <<>>,
     processing_round |-> 0]

NoUndeclared ==
    [meta_execution_plan |-> NoPlan,
     meta_evaluation_completed |-> FALSE,
     meta_recommendation |-> "continue",
     convergence_score |-> 0,
     overall_system_performance |-> 0,
     meta_agent_error |-> FALSE,
     meta_control_active |-> FALSE,
     execution_error |-> FALSE,
     meta_evaluation_error |-> FALSE,
     subagent_results |-> [a \in {RESEARCH, EVALUATION, LEGAL} |-> "none"],
     expected_strategy |-> "none",
     task_allocation |-> <<>>,
     multi_agent_results |-> FALSE]

InitialMetaAgent ==
    [coordination_strategy |-> "adaptive", processing_round |-> 0,
     pending_tasks |-> <<>>, in_progress_tasks |-> <<>>,
     completed_tasks |-> <<>>, failed_tasks |-> <<>>,
     task_counter |-> 0, decision_history |-> <<>>, optimization_insights |-> 0]

NoResults ==
    [returned |-> FALSE, success |-> FALSE, error_log |-> 0,
     processing_rounds |-> 0, has_final_result |-> FALSE, records |-> 0]

InitialTrace ==
    [faults |-> 0, backlog |-> 0, evaluate_count |-> 0, finalize_count |-> 0,
     plan_raised |-> FALSE, step_failed |-> FALSE, collaborator_failed |-> FALSE,
     exec_mode |-> "none", exec_order |-> <<>>, research_batch |-> <<>>,
     research_remaining |-> <<>>, research_processed |-> {},
     evaluation_raised |-> FALSE, escaped |-> FALSE, last_step |-> "none",
     last_raised |-> FALSE, round_before |-> 0,
     process_raised |-> {}, raised_before |-> {},
     plan_count |-> 0, execute_count |-> 0]

Init ==
    /\ pc = "start"
    /\ max_processing_rounds \in 1..MaxRounds
    /\ keep_undeclared \in BOOLEAN
    /\ zero_deadline \in BOOLEAN
    /\ coordination_strategy = "sequential"
    /\ state = InitialState
    /\ undeclared = NoUndeclared
    /\ meta_agent = InitialMetaAgent
    /\ results = NoResults
    /\ submitted = [u \in AllUrls |-> 0]
    /\ trace = InitialTrace

\* state.get(key, default) for a key outside MultiAgentState
Seen == IF keep_undeclared THEN undeclared ELSE NoUndeclared

\* the except branch that leaves the dataclass default success = True
RunExcept_keeps_success ==
    [NoResults EXCEPT !.returned = TRUE, !.success = TRUE, !.error_log = 1]

\* run(): the except branch around graph.ainvoke (meta_orchestrator.py:832-838)
RunExcept ==
    [NoResults EXCEPT !.returned = TRUE, !.success = FALSE, !.error_log = 1]

\* ------------------------------------------------------------- Initialize
\* _initialize_system_node: the work source is asked once; max_cases truncates.
InitializeSystem ==
    /\ pc = "start"
    /\ \E n \in MetaBacklogSizes :
          /\ state' = [state EXCEPT !.urls_to_process = Urls(n)]
          /\ trace' = [trace EXCEPT !.backlog = n, !.last_step = "initialize_system",
                                    !.last_raised = FALSE]
    /\ pc' = "meta_agent_control"
    /\ UNCHANGED <<config, undeclared,
                   meta_agent, results, submitted>>

\* DOJScraper construction or the url listing raises: no handler in the node,
\* the exception leaves graph.ainvoke and reaches run()'s except.
InitializeSystemRaises ==
    /\ pc = "start"
    /\ trace.faults < MaxFaults
    /\ results' = RunExcept
    /\ trace' = [trace EXCEPT !.last_step = "initialize_system", !.last_raised = TRUE,
                              !.step_failed = TRUE,
                              !.escaped = TRUE, !.faults = @ + 1]
    /\ pc' = "done"
    /\ UNCHANGED <<config, state, undeclared,
                   meta_agent, submitted>>

\* ------------------------------------------------------------- MetaAgent
\* distinct "from->to" strings of the queue (meta_agent.py:259)
UniqueInteractions(queue) ==
    Cardinality({<<queue[i].from, queue[i].to>> : i \in 1..Len(queue)})

\* len(managed_agents) * (len(managed_agents) - 1)  (meta_agent.py:260)
MaxInteractions == Len(managed_agents) * (Len(managed_agents) - 1)

\* _analyze_system_state: bottleneck flags; failed > analyzed * 0.2 is kept
\* in tenths.
Bottlenecks(st) ==
    (IF Len(st.urls_to_process) > BACKLOG_BOTTLENECK THEN {"URL processing backlog"} ELSE {})
    \cup (IF 10 * Len(st.failed_urls) > 2 * Len(st.analyzed_cases)
          THEN {"High failure rate in case processing"} ELSE {})

\* coordination_effectiveness = unique / max, compared as unique*10 > k*max
EffectivenessAbove(st, tenths) ==
    /\ st.agent_communication_queue # <<>>
    /\ 10 * UniqueInteractions(st.agent_communication_queue) > tenths * MaxInteractions

SystemHealth(st) ==
    IF EffectivenessAbove(st, 7) /\ Bottlenecks(st) = {} THEN "excellent"
    ELSE IF EffectivenessAbove(st, 5) /\ Cardinality(Bottlenecks(st)) <= 1 THEN "good"
    ELSE IF EffectivenessAbove(st, 3) THEN "fair"
    ELSE "poor"

\* a selection that falls back to sequential from the second round on
DecideStrategy_by_round(st) ==
    IF SystemHealth(st) = "poor" \/ st.processing_round >= 2 THEN "sequential"
    ELSE IF SystemHealth(st) = "excellent" /\ Len(st.urls_to_process) > 10 THEN "parallel"
    ELSE IF Cardinality(Bottlenecks(st)) > 0 THEN "load_balanced"
    ELSE "adaptive"

\* _make_strategic_decisions: decisions["coordination_strategy"]
DecideStrategy(st) ==
    IF SystemHealth(st) = "poor" THEN "sequential"
    ELSE IF SystemHealth(st) = "excellent" /\ Len(st.urls_to_process) > 10 THEN "parallel"
    ELSE IF Cardinality(Bottlenecks(st)) > 0 THEN "load_balanced"
    ELSE "adaptive"

\* the decision history keeps the last 50 decisions (meta_agent.py:347-349)
AppendDecision(history, d) ==
    LET h == Append(history, d)
    IN IF Len(h) > DECISION_HISTORY_CAP
       THEN SubSeq(h, Len(h) - DECISION_HISTORY_CAP + 1, Len(h)) ELSE h

_calculate_optimal_batch_size(strategy) ==
    CASE strategy = "sequential" -> 3
      [] strategy = "parallel" -> 8
      [] strategy = "adaptive" -> 5
      [] strategy = "load_balanced" -> 6
      [] strategy = "hierarchical" -> 4
      [] OTHER -> 5

\* AgentTask(...) as _allocate_tasks builds it: status "pending", no deadline
\* argument.  deadline_passed is the deadline a caller may have put on the
\* dataclass field; is_overdue reads it.
AgentTask(id, agent, type, url) ==
    [task_id |-> id, agent_id |-> agent, task_type |-> type, url |-> url,
     status |-> "pending", deadline_passed |-> zero_deadline]

is_overdue(task) == task.deadline_passed

\* _allocate_tasks: the tasks of one round, in creation order
UrlTasks(st, strategy, counter) ==
    LET k == IF st.urls_to_process = <<>> THEN 0
             ELSE Min(Len(st.urls_to_process), _calculate_optimal_batch_size(strategy))
    IN [i \in 1..k |-> AgentTask(counter + i - 1, RESEARCH, "url_processing",
                                 st.urls_to_process[i])]

_allocate_tasks(st, strategy, counter) ==
    LET ut == UrlTasks(st, strategy, counter)
        et == IF Len(st.analyzed_cases) >= MIN_CASES
              THEN <<AgentTask(counter + Len(ut), EVALUATION, "performance_evaluation", 0)>>
              ELSE <<>>
        lt == IF st.analyzed_cases # <<>>
              THEN <<AgentTask(counter + Len(ut) + Len(et), LEGAL, "legal_intelligence", 0)>>
              ELSE <<>>
    IN ut \o et \o lt

\* agents that got an entry in allocation["agent_assignments"], in dict order
AssignedAgents(tasks) ==
    (IF \E i \in 1..Len(tasks) : tasks[i].agent_id = RESEARCH THEN <<RESEARCH>> ELSE <<>>)
    \o (IF \E i \in 1..Len(tasks) : tasks[i].agent_id = EVALUATION THEN <<EVALUATION>> ELSE <<>>)
    \o (IF \E i \in 1..Len(tasks) : tasks[i].agent_id = LEGAL THEN <<LEGAL>> ELSE <<>>)

\* _monitor_agent_performance: agents with a recommended adjustment
AdjustedAgents(st, ma) ==
    (IF st.research_agent_state.cases_analyzed < 2 /\ ma.processing_round > 1
     THEN <<RESEARCH>> ELSE <<>>)
    \o (IF st.legal_intelligence_agent_state.present = FALSE /\ Len(st.analyzed_cases) > 5
        THEN <<LEGAL>> ELSE <<>>)

\* _share_meta_guidance: the messages appended to the queue, in order
_share_meta_guidance(st, ma, tasks) ==
    [i \in 1..Len(managed_agents) |-> Message(META, managed_agents[i], "meta_guidance")]
    \o [i \in 1..Len(AdjustedAgents(st, ma)) |->
            Message(META, AdjustedAgents(st, ma)[i], "performance_adjustment")]
    \o [i \in 1..Len(AssignedAgents(tasks)) |->
            Message(META, AssignedAgents(tasks)[i], "task_assignment")]

\* MetaAgent.process up to the step where it stops: steps is the number of
\* numbered steps of process() that completed (7 = it returned).
ProcessSteps == {0, 3, 7}

MetaAgentAfter(st, ma, steps) ==
    LET strategy == DecideStrategy(st)
        tasks == _allocate_tasks(st, strategy, ma.task_counter)
    IN [ma EXCEPT
          !.decision_history = IF steps >= 2 THEN AppendDecision(@, strategy) ELSE @,
          !.task_counter = IF steps >= 3 THEN @ + Len(tasks) ELSE @,
          !.pending_tasks = IF steps >= 3 THEN @ \o tasks ELSE @,
          !.optimization_insights =
              IF steps >= 6 THEN Min(@ + 1, OPTIMIZATION_INSIGHTS_CAP) ELSE @]

QueueAfterMeta(st, ma, steps) ==
    IF steps = 7
    THEN st.agent_communication_queue
         \o _share_meta_guidance(st, ma, _allocate_tasks(st, DecideStrategy(st), ma.task_counter))
    ELSE st.agent_communication_queue

\* SystemState.get_workload_distribution: in-flight tasks per agent, agents in
\* order of first appearance
RECURSIVE FirstAppearance(_, _)
FirstAppearance(tasks, seen) ==
    IF tasks = <<>> THEN <<>>
    ELSE IF Head(tasks).agent_id \in seen THEN FirstAppearance(Tail(tasks), seen)
         ELSE <<Head(tasks).agent_id>> \o FirstAppearance(Tail(tasks), seen \cup {Head(tasks).agent_id})

Workload(tasks, agent) == Cardinality({i \in 1..Len(tasks) : tasks[i].agent_id = agent})

\* sorted(workload.items(), key=lambda x: x[1]): stable, ascending by count
RECURSIVE InsertByLoad(_, _, _)
InsertByLoad(sorted, agent, tasks) ==
    IF sorted = <<>> THEN <<agent>>
    ELSE IF Workload(tasks, Head(sorted)) <= Workload(tasks, agent)
         THEN <<Head(sorted)>> \o InsertByLoad(Tail(sorted), agent, tasks)
         ELSE <<agent>> \o sorted

RECURSIVE SortByLoad(_, _)
SortByLoad(agents, tasks) ==
    IF agents = <<>> THEN <<>>
    ELSE InsertByLoad(SortByLoad(SubSeq(agents, 1, Len(agents) - 1), tasks),
                      agents[Len(agents)], tasks)

_generate_execution_plan(strategy, ma) ==
    [present |-> TRUE,
     coordination_mode |-> strategy,
     execution_order |->
        IF strategy = "sequential" THEN <<RESEARCH, LEGAL, EVALUATION>>
        ELSE IF strategy = "parallel" THEN <<>>
        ELSE IF strategy = "load_balanced"
             THEN SortByLoad(FirstAppearance(ma.in_progress_tasks, {}), ma.in_progress_tasks)
        ELSE <<RESEARCH, LEGAL, EVALUATION>>,
     parallel_groups |->
        IF strategy = "parallel" THEN <<<<RESEARCH, LEGAL>>, <<EVALUATION>>>> ELSE <<>>,
     meta_oversight |-> TRUE,
     fallback_mode |-> FALSE]

\* ------------------------------------------------------------------- Plan
\* _meta_agent_control_node, MetaAgent.process returned
MetaAgentControl ==
    /\ pc = "meta_agent_control"
    /\ LET strategy == DecideStrategy(state)
           ma == MetaAgentAfter(state, meta_agent, 7)
       IN /\ meta_agent' = [ma EXCEPT !.coordination_strategy = strategy]
          /\ state' = [state EXCEPT
                 !.agent_communication_queue = QueueAfterMeta(state, meta_agent, 7)]
          /\ undeclared' = [undeclared EXCEPT
                 !.meta_execution_plan = _generate_execution_plan(strategy, ma),
                 !.task_allocation = _allocate_tasks(state, strategy, meta_agent.task_counter),
                 !.meta_control_active = TRUE]
    /\ trace' = [trace EXCEPT !.plan_count = @ + 1, !.plan_raised = FALSE, !.last_step = "meta_agent_control",
                              !.last_raised = FALSE,
                              !.round_before = state.processing_round]
    /\ pc' = "execute_subagents"
    /\ UNCHANGED <<config, results, submitted>>

\* _meta_agent_control_node, MetaAgent.process raised after `steps` steps
MetaAgentControlRaises ==
    /\ pc = "meta_agent_control"
    /\ trace.faults < MaxFaults
    /\ \E steps \in ProcessSteps \ {7} :
          meta_agent' = MetaAgentAfter(state, meta_agent, steps)
    /\ undeclared' = [undeclared EXCEPT
           !.meta_agent_error = TRUE,
           !.meta_execution_plan = _fallback_execution_plan,
           !.meta_control_active = FALSE]
    /\ trace' = [trace EXCEPT !.plan_count = @ + 1, !.plan_raised = TRUE, !.last_step = "meta_agent_control",
                              !.last_raised = TRUE,
                              !.step_failed = TRUE, !.faults = @ + 1,
                              !.round_before = state.processing_round]
    /\ pc' = "execute_subagents"
    /\ UNCHANGED <<config, state, results,
                   submitted>>

\* ---------------------------------------------------------------- Execute
AgentIds == {RESEARCH, EVALUATION, LEGAL}

RECURSIVE Flatten(_)
Flatten(groups) == IF groups = <<>> THEN <<>> ELSE Head(groups) \o Flatten(Tail(groups))

\* ResearchAgent._conduct_research: the batch handed to the extractor
ResearchBatch(urls) == Take(urls, Min(RESEARCH_BATCH, Len(urls)))

\* ResearchAgent._conduct_research: remaining_urls, given the urls whose fetch
\* and analysis both returned something
RemainingUrls(urls, processed) == FilterOut(urls, processed)

\* messages an agent's process() appends when it returns normally
AgentMessages(agent, st) ==
    CASE agent = RESEARCH ->
            IF st.analyzed_cases # <<>>
            THEN <<Message(RESEARCH, EVALUATION, "pattern_insights"),
                   Message(RESEARCH, LEGAL, "pattern_insights")>>
            ELSE <<>>
      [] agent = LEGAL ->
            (IF st.analyzed_cases # <<>>
             THEN <<Message(LEGAL, RESEARCH, "legal_precedents")>> ELSE <<>>)
            \o <<Message(LEGAL, EVALUATION, "legal_accuracy_feedback"),
                 Message(LEGAL, RESEARCH, "regulatory_updates"),
                 Message(LEGAL, EVALUATION, "regulatory_compliance")>>
      [] agent = EVALUATION ->
            (IF st.analyzed_cases # <<>>
             THEN <<Message(EVALUATION, RESEARCH, "performance_feedback"),
                    Message(EVALUATION, LEGAL, "quality_feedback")>> ELSE <<>>)
            \o <<Message(EVALUATION, RESEARCH, "coordination_feedback"),
                 Message(EVALUATION, LEGAL, "coordination_feedback")>>

\* the queue after the agents of `order` ran one after the other; outcome[a]
\* says whether a's process() returned or raised
RECURSIVE QueueAfterAgents(_, _, _)
QueueAfterAgents(order, outcome, st) ==
    IF order = <<>> THEN st.agent_communication_queue
    ELSE LET a == Head(order)
             q == IF outcome[a] = "ok"
                  THEN st.agent_communication_queue \o AgentMessages(a, st)
                  ELSE st.agent_communication_queue
         IN QueueAfterAgents(Tail(order), outcome,
                             [st EXCEPT !.agent_communication_queue = q])

ExecutionPlanOf(u) ==
    IF u.meta_execution_plan.present THEN u.meta_execution_plan ELSE _fallback_execution_plan

\* _execute_subagents_node: the plan is run through
\* _execute_agent_group_parallel, group by group
ExecutedInParallel(plan) ==
    plan.coordination_mode = "parallel" /\ plan.parallel_groups # <<>>

\* agents run by _execute_subagents_node for a plan
ExecutionOrder(plan) ==
    IF plan.coordination_mode = "parallel" /\ plan.parallel_groups # <<>>
    THEN Flatten(plan.parallel_groups)
    ELSE plan.execution_order

ResearchOutcomes == {"ok", "raise_before_fetch", "raise_after_fetch"}

\* _execute_subagents_node with _execute_agent_group_sequential/_parallel.
\* Every agent result is merged into the node's private copy of the state;
\* the node returns execution_results only.  The queue list is shared with
\* the workflow state, so the appended messages stay.
ExecuteSubagents ==
    /\ pc = "execute_subagents"
    /\ LET plan == ExecutionPlanOf(Seen)
           order == ExecutionOrder(plan)
           batch == ResearchBatch(state.urls_to_process)
       IN \E ro \in ResearchOutcomes, lo \in {"ok", "raise"}, eo \in {"ok", "raise"},
             processed \in SUBSET SeqToSet(batch) :
            LET fetched == RESEARCH \in SeqToSet(order) /\ ro # "raise_before_fetch"
                outcome == [a \in AgentIds |->
                              IF a = RESEARCH THEN (IF ro = "ok" THEN "ok" ELSE "raise")
                              ELSE IF a = LEGAL THEN lo ELSE eo]
                nfaults == (IF ro = "ok" THEN 0 ELSE 1) + (IF lo = "ok" THEN 0 ELSE 1)
                           + (IF eo = "ok" THEN 0 ELSE 1)
                           + (IF fetched THEN Cardinality(SeqToSet(batch) \ processed) ELSE 0)
            IN /\ (~fetched => processed = {})
               /\ \A a \in AgentIds \ SeqToSet(order) : outcome[a] = "ok"
               /\ (RESEARCH \notin SeqToSet(order) => ro = "ok")
               /\ trace.faults + nfaults <= MaxFaults
               /\ submitted' = [u \in DOMAIN submitted |->
                                  IF fetched /\ u \in SeqToSet(batch)
                                  THEN submitted[u] + 1 ELSE submitted[u]]
               /\ state' = [state EXCEPT
                      !.agent_communication_queue = QueueAfterAgents(order, outcome, state)]
               /\ undeclared' = [undeclared EXCEPT
                      !.subagent_results =
                          [a \in AgentIds |->
                             IF a \in SeqToSet(order)
                             THEN (IF outcome[a] = "ok" THEN "ok" ELSE "error")
                             ELSE "none"]]
               /\ trace' = [trace EXCEPT
                      !.faults = @ + nfaults,
                      !.exec_mode = plan.coordination_mode,
                      !.exec_order = order,
                      !.research_batch = IF fetched THEN batch ELSE <<>>,
                      !.research_remaining =
                          IF fetched /\ ro = "ok"
                          THEN RemainingUrls(state.urls_to_process, processed)
                          ELSE state.urls_to_process,
                      !.research_processed = processed,
                      !.collaborator_failed =
                          @ \/ (fetched /\ processed # SeqToSet(batch)),
                      !.execute_count = @ + 1,
                      !.process_raised =
                          {a \in SeqToSet(order) : outcome[a] = "raise"},
                      !.raised_before = @ \cup trace.process_raised,
                      !.last_step = "execute_subagents", !.last_raised = FALSE]
    /\ pc' = "meta_evaluation"
    /\ UNCHANGED <<config, meta_agent, results>>

\* --------------------------------------------------------------- Evaluate
\* _analyze_system_convergence: the five criteria, as the number that hold.
\* len(failed) <= len(analyzed) * 0.3 is kept in tenths.
ConvergenceCriteria(st) ==
    [url_processing_complete |-> Len(st.urls_to_process) = 0,
     sufficient_cases_analyzed |-> Len(st.analyzed_cases) >= MIN_CASES,
     evaluation_completed |-> st.evaluation_result,
     meta_rounds_sufficient |-> st.processing_round >= MIN_ROUNDS,
     system_stable |-> 10 * Len(st.failed_urls) <= 3 * Len(st.analyzed_cases)]

\* sum(criteria.values()); convergence_score is this over len(criteria) = 5
CriteriaMet(c) == Cardinality({k \in DOMAIN c : c[k]})

NumCriteria == Cardinality(DOMAIN ConvergenceCriteria(InitialState))

\* score >= tenths/10, with score = met / NumCriteria
ScoreAtLeast(met, tenths) == 10 * met >= tenths * NumCriteria

\* the rule without its elif branch
Recommendation_no_elif(met, current_round, max_rounds) ==
    IF ScoreAtLeast(met, 8) \/ current_round >= max_rounds THEN "finalize"
    ELSE "continue"

\* the if/elif/else of _analyze_system_convergence (meta_orchestrator.py:549-554)
Recommendation(met, current_round, max_rounds) ==
    IF ScoreAtLeast(met, 8) \/ current_round >= max_rounds THEN "finalize"
    ELSE IF ScoreAtLeast(met, 6) /\ current_round >= max_rounds - 1 THEN "finalize"
    ELSE "continue"

\* _evaluate_subagent_performance: overall_system_performance in thousandths.
\* Only agent states that are in the workflow state contribute; the pattern
\* and precedent terms of a present state are not modelled (lower bound).
OverallSystemPerformance(st) ==
    LET scores ==
          (IF st.research_agent_state.present
           THEN <<Min(10, st.research_agent_state.cases_analyzed) * 70>> ELSE <<>>)
          \o (IF st.evaluation_agent_state.present
              THEN <<Min(5, st.evaluation_agent_state.evaluations_completed) * 120>> ELSE <<>>)
          \o (IF st.legal_intelligence_agent_state.present THEN <<0>> ELSE <<>>)
        total == IF Len(scores) = 0 THEN 0
                 ELSE IF Len(scores) = 1 THEN scores[1]
                 ELSE IF Len(scores) = 2 THEN scores[1] + scores[2]
                 ELSE scores[1] + scores[2] + scores[3]
    IN IF scores = <<>> THEN 0 ELSE total \div Len(scores)

\* _meta_should_continue without its max_processing_rounds override
_meta_should_continue_no_cap(st, u, max_rounds) ==
    IF ~u.meta_evaluation_completed THEN "finalize"
    ELSE IF 100 * u.convergence_score >= 85 * NumCriteria THEN "finalize"
    ELSE IF u.meta_recommendation = "finalize" THEN "finalize"
    ELSE "continue"

\* _meta_should_continue on the state the next node reads: st the declared
\* channels, u the keys outside the schema as state.get sees them
_meta_should_continue(st, u, max_rounds) ==
    IF ~u.meta_evaluation_completed THEN "finalize"
    ELSE IF st.processing_round >= max_rounds THEN "finalize"
    ELSE IF 100 * u.convergence_score >= 85 * NumCriteria THEN "finalize"
    ELSE IF u.meta_recommendation = "finalize" THEN "finalize"
    ELSE "continue"

SeenOf(u) == IF keep_undeclared THEN u ELSE NoUndeclared

\* the agents of the next round start without coordination and planning
NextAfterEvaluation_no_plan(st, u) ==
    IF _meta_should_continue(st, SeenOf(u), max_processing_rounds) = "continue"
    THEN "execute_subagents" ELSE "finalize_results"

NextAfterEvaluation(st, u) ==
    IF _meta_should_continue(st, SeenOf(u), max_processing_rounds) = "continue"
    THEN "meta_coordination" ELSE "finalize_results"

\* _meta_evaluation_node, the try body completed
MetaEvaluation ==
    /\ pc = "meta_evaluation"
    /\ LET met == CriteriaMet(ConvergenceCriteria(state))
           processing_round == state.processing_round + 1
           st == [state EXCEPT !.processing_round = processing_round]
           u == [undeclared EXCEPT
                   !.meta_evaluation_completed = TRUE,
                   !.overall_system_performance = OverallSystemPerformance(state),
                   !.convergence_score = met,
                   !.meta_recommendation =
                       Recommendation(met, state.processing_round, max_processing_rounds)]
       IN /\ state' = st
          /\ undeclared' = u
          /\ meta_agent' = [meta_agent EXCEPT !.processing_round = processing_round]
          /\ pc' = NextAfterEvaluation(st, u)
    /\ trace' = [trace EXCEPT !.evaluate_count = @ + 1, !.last_step = "meta_evaluation",
                              !.last_raised = FALSE]
    /\ UNCHANGED <<config, results, submitted>>

\* the except branch returning the round it read, without the + 1
MetaEvaluationRaises_same_round ==
    /\ pc = "meta_evaluation"
    /\ trace.faults < MaxFaults
    /\ LET u == [undeclared EXCEPT
                   !.meta_evaluation_error = TRUE,
                   !.meta_recommendation = "continue"]
       IN /\ undeclared' = u
          /\ pc' = NextAfterEvaluation(state, u)
    /\ trace' = [trace EXCEPT !.evaluate_count = @ + 1, !.last_step = "meta_evaluation",
                              !.last_raised = TRUE,
                              !.step_failed = TRUE, !.evaluation_raised = TRUE,
                              !.faults = @ + 1]
    /\ UNCHANGED <<config, meta_agent,
                   results, submitted, state>>

\* _meta_evaluation_node, the try body raised (meta_orchestrator.py:424-430)
MetaEvaluationRaises ==
    /\ pc = "meta_evaluation"
    /\ trace.faults < MaxFaults
    /\ LET st == [state EXCEPT !.processing_round = state.processing_round + 1]
           u == [undeclared EXCEPT
                   !.meta_evaluation_error = TRUE,
                   !.meta_recommendation = "continue"]
       IN /\ state' = st
          /\ undeclared' = u
          /\ pc' = NextAfterEvaluation(st, u)
    /\ trace' = [trace EXCEPT !.evaluate_count = @ + 1, !.last_step = "meta_evaluation",
                              !.last_raised = TRUE,
                              !.step_failed = TRUE, !.evaluation_raised = TRUE,
                              !.faults = @ + 1]
    /\ UNCHANGED <<config, meta_agent,
                   results, submitted>>

\* ------------------------------------------------------------- Coordinate
\* _meta_coordination_node
MetaCoordination ==
    /\ pc = "meta_coordination"
    /\ LET overall_performance == Seen.overall_system_performance
           strategy == IF overall_performance < 600 THEN "sequential"
                       ELSE IF overall_performance > 850 THEN "parallel"
                       ELSE meta_agent.coordination_strategy
       IN /\ meta_agent' = [meta_agent EXCEPT !.coordination_strategy = strategy]
          /\ undeclared' = [undeclared EXCEPT !.expected_strategy = strategy]
    /\ trace' = [trace EXCEPT !.last_step = "meta_coordination", !.last_raised = FALSE]
    /\ pc' = "meta_agent_control"
    /\ UNCHANGED <<config, state, results,
                   submitted>>

\* --------------------------------------------------------------- Finalize
\* _finalize_results_node and the return of run(): the node's
\* MultiAgentResults, or _create_results_from_state when the key did not
\* reach the final state; both set the same fields from the state.
FinalizeResults ==
    /\ pc = "finalize_results"
    /\ results' = [returned |-> TRUE, success |-> TRUE, error_log |-> 0,
                   processing_rounds |-> state.processing_round,
                   has_final_result |-> state.analyzed_cases # <<>>,
                   records |-> Len(state.analyzed_cases)]
    /\ undeclared' = [undeclared EXCEPT !.multi_agent_results = TRUE]
    /\ trace' = [trace EXCEPT !.finalize_count = @ + 1, !.last_step = "finalize_results",
                              !.last_raised = FALSE]
    /\ pc' = "done"
    /\ UNCHANGED <<config, state, meta_agent,
                   submitted>>

\* the node has no handler: an exception raised in it leaves graph.ainvoke
FinalizeResultsRaises ==
    /\ pc = "finalize_results"
    /\ trace.faults < MaxFaults
    /\ results' = RunExcept
    /\ trace' = [trace EXCEPT !.finalize_count = @ + 1, !.last_step = "finalize_results",
                              !.last_raised = TRUE,
                              !.step_failed = TRUE, !.escaped = TRUE, !.faults = @ + 1]
    /\ pc' = "done"
    /\ UNCHANGED <<config, state, undeclared,
                   meta_agent, submitted>>

Next ==
    \/ InitializeSystem
    \/ InitializeSystemRaises
    \/ MetaAgentControl
    \/ MetaAgentControlRaises
    \/ ExecuteSubagents
    \/ MetaEvaluation
    \/ MetaEvaluationRaises
    \/ MetaCoordination
    \/ FinalizeResults
    \/ FinalizeResultsRaises

Spec == Init /\ [][Next]_vars

\* -------------------------------------------------- MultiAgentOrchestrator
\* multi_agent_orchestrator.py with the sequential or the adaptive graph:
\* initialize_system -> research_agent -> legal_intelligence_agent ->
\* evaluation_agent -> coordinate_agents -> (research_agent | finalize_results).
\* Each agent node returns the agent's updates, so the declared keys among
\* them (urls_to_process, the agent states) reach the workflow state.
QUEUE_KEEP == 50
MULTI_CRITERIA == 4

MultiStrategies == {"sequential", "adaptive"}

MultiInit ==
    /\ pc = "multi.initialize_system"
    /\ max_processing_rounds \in 1..MaxRounds
    /\ keep_undeclared \in BOOLEAN
    /\ zero_deadline = FALSE
    /\ coordination_strategy \in MultiStrategies
    /\ state = InitialState
    /\ undeclared = NoUndeclared
    /\ meta_agent = InitialMetaAgent
    /\ results = NoResults
    /\ submitted = [u \in AllUrls |-> 0]
    /\ trace = InitialTrace

\* _initialize_system_node: the backlog is empty at entry, so it is fetched
MultiInitializeSystem ==
    /\ pc = "multi.initialize_system"
    /\ \E n \in BacklogSizes :
          /\ state' = [state EXCEPT !.urls_to_process = Urls(n)]
          /\ trace' = [trace EXCEPT !.backlog = n, !.last_step = "initialize_system",
                                    !.last_raised = FALSE]
    /\ pc' = "multi.research_agent"
    /\ UNCHANGED <<config, undeclared, meta_agent, results, submitted>>

\* _decide_next_agent, the conditional edge after research_agent (adaptive)
_decide_next_agent(st) ==
    IF ~st.research_agent_state.present THEN "legal_intelligence"
    ELSE IF Len(st.analyzed_cases) > MIN_CASES THEN "evaluation"
    ELSE "coordinate"

AfterResearch(st) ==
    IF coordination_strategy = "sequential" THEN "multi.legal_intelligence_agent"
    ELSE CASE _decide_next_agent(st) = "legal_intelligence" -> "multi.legal_intelligence_agent"
           [] _decide_next_agent(st) = "evaluation" -> "multi.evaluation_agent"
           [] OTHER -> "multi.coordinate_agents"

\* _research_agent_node: ResearchAgent.process on the workflow state; an
\* exception of process is turned into research_agent_error
MultiResearchAgent ==
    /\ pc = "multi.research_agent"
    /\ LET batch == ResearchBatch(state.urls_to_process)
       IN \E ro \in ResearchOutcomes, processed \in SUBSET SeqToSet(batch) :
            LET fetched == state.urls_to_process # <<>> /\ ro # "raise_before_fetch"
                nfaults == (IF ro = "ok" THEN 0 ELSE 1)
                           + (IF fetched THEN Cardinality(SeqToSet(batch) \ processed) ELSE 0)
                st == [state EXCEPT
                         !.urls_to_process =
                             IF fetched /\ ro = "ok" THEN RemainingUrls(@, processed) ELSE @,
                         !.research_agent_state =
                             IF ro = "ok" /\ state.analyzed_cases # <<>>
                             THEN [present |-> TRUE,
                                   cases_analyzed |-> Len(state.analyzed_cases)]
                             ELSE @,
                         !.agent_communication_queue =
                             IF ro = "ok" THEN @ \o AgentMessages(RESEARCH, state) ELSE @]
            IN /\ (~fetched => processed = {})
               /\ (state.urls_to_process = <<>> => ro # "raise_after_fetch")
               /\ trace.faults + nfaults <= MaxFaults
               /\ state' = st
               /\ submitted' = [u \in DOMAIN submitted |->
                                  IF fetched /\ u \in SeqToSet(batch)
                                  THEN submitted[u] + 1 ELSE submitted[u]]
               /\ pc' = AfterResearch(st)
               /\ trace' = [trace EXCEPT
                      !.faults = @ + nfaults,
                      !.research_batch = IF fetched THEN batch ELSE <<>>,
                      !.research_remaining = st.urls_to_process,
                      !.research_processed = processed,
                      !.collaborator_failed =
                          @ \/ (fetched /\ processed # SeqToSet(batch)),
                      !.last_step = "research_agent", !.last_raised = FALSE]
    /\ UNCHANGED <<config, undeclared, meta_agent, results>>

\* _legal_intelligence_agent_node
MultiLegalIntelligenceAgent ==
    /\ pc = "multi.legal_intelligence_agent"
    /\ \E lo \in {"ok", "raise"} :
          /\ (lo = "raise" => trace.faults < MaxFaults)
          /\ state' = IF lo = "ok"
                      THEN [state EXCEPT
                              !.legal_intelligence_agent_state = [present |-> TRUE],
                              !.agent_communication_queue = @ \o AgentMessages(LEGAL, state)]
                      ELSE state
          /\ trace' = [trace EXCEPT !.faults = @ + (IF lo = "ok" THEN 0 ELSE 1),
                                    !.last_step = "legal_intelligence_agent", !.last_raised = FALSE]
    /\ pc' = "multi.evaluation_agent"
    /\ UNCHANGED <<config, undeclared, meta_agent, results, submitted>>

\* _evaluation_agent_node
MultiEvaluationAgent ==
    /\ pc = "multi.evaluation_agent"
    /\ \E eo \in {"ok", "raise"} :
          /\ (eo = "raise" => trace.faults < MaxFaults)
          /\ state' = IF eo = "ok"
                      THEN [state EXCEPT
                              !.evaluation_agent_state =
                                  [present |-> TRUE, evaluations_completed |-> 0],
                              !.agent_communication_queue =
                                  @ \o AgentMessages(EVALUATION, state)]
                      ELSE state
          /\ trace' = [trace EXCEPT !.faults = @ + (IF eo = "ok" THEN 0 ELSE 1),
                                    !.last_step = "evaluation_agent", !.last_raised = FALSE]
    /\ pc' = "multi.coordinate_agents"
    /\ UNCHANGED <<config, undeclared, meta_agent, results, submitted>>

\* _check_convergence: how many of its four criteria hold
_check_convergence(st, max_rounds) ==
    CriteriaMet([url_processing_complete |-> st.urls_to_process = <<>>,
                 sufficient_cases_analyzed |-> Len(st.analyzed_cases) >= MIN_CASES,
                 evaluation_completed |-> st.evaluation_result,
                 max_rounds_reached |-> st.processing_round >= max_rounds])

\* _should_continue_processing: should_continue is score < 0.8
_should_continue_processing(st, max_rounds) ==
    IF 10 * _check_convergence(st, max_rounds) < 8 * MULTI_CRITERIA
       /\ st.processing_round < max_rounds
    THEN "continue" ELSE "finalize"

\* queue[-50:]
LastMessages(q) == SubSeq(q, IF Len(q) > QUEUE_KEEP THEN Len(q) - QUEUE_KEEP + 1 ELSE 1, Len(q))

\* _coordinate_agents_node; the returned queue[-50:] is merged by the
\* operator.add reducer of agent_communication_queue
MultiCoordinateAgents ==
    /\ pc = "multi.coordinate_agents"
    /\ LET st == [state EXCEPT
                    !.processing_round = @ + 1,
                    !.agent_communication_queue = @ \o LastMessages(@)]
       IN /\ state' = st
          /\ pc' = IF _should_continue_processing(st, max_processing_rounds) = "continue"
                   THEN "multi.research_agent" ELSE "multi.finalize_results"
    /\ trace' = [trace EXCEPT !.last_step = "coordinate_agents", !.last_raised = FALSE,
                              !.round_before = state.processing_round]
    /\ UNCHANGED <<config, undeclared, meta_agent, results, submitted>>

\* _finalize_results_node and the return of run()
MultiFinalizeResults ==
    /\ pc = "multi.finalize_results"
    /\ results' = [NoResults EXCEPT
                     !.returned = TRUE, !.success = TRUE,
                     !.processing_rounds = state.processing_round,
                     !.has_final_result = (state.analyzed_cases # <<>>),
                     !.records = Len(state.analyzed_cases)]
    /\ pc' = "multi.done"
    /\ trace' = [trace EXCEPT !.last_step = "finalize_results", !.last_raised = FALSE,
                              !.finalize_count = @ + 1]
    /\ UNCHANGED <<config, state, undeclared, meta_agent, submitted>>

MultiNext ==
    \/ MultiInitializeSystem
    \/ MultiResearchAgent
    \/ MultiLegalIntelligenceAgent
    \/ MultiEvaluationAgent
    \/ MultiCoordinateAgents
    \/ MultiFinalizeResults

MultiSpec == MultiInit /\ [][MultiNext]_vars

\* ------------------------------------------- convergence analysis alone
\* _analyze_system_convergence applied to every small workflow state: the
\* backlog empty or not, 0..MaxCases case records, 0..MaxFailed failed urls,
\* an evaluation result or none, and a round counter up to the cap.
Cases(n) == [i \in 1..n |-> [url |-> i]]

ConvergenceInit ==
    /\ pc = "convergence_input"
    /\ max_processing_rounds \in 1..MaxRounds
    /\ keep_undeclared = TRUE
    /\ zero_deadline = FALSE
    /\ coordination_strategy = "sequential"
    /\ \E pending \in 0..1, analyzed \in 0..MaxCases, failed \in 0..MaxFailed,
          evaluated \in BOOLEAN, current_round \in 0..MaxRounds :
          state = [InitialState EXCEPT
                     !.urls_to_process = [i \in 1..pending |-> MaxCases + MaxFailed + i],
                     !.analyzed_cases = Cases(analyzed),
                     !.failed_urls = [i \in 1..failed |-> MaxCases + i],
                     !.evaluation_result = evaluated,
                     !.processing_round = current_round]
    /\ undeclared = NoUndeclared
    /\ meta_agent = InitialMetaAgent
    /\ results = NoResults
    /\ submitted = [u \in AllUrls |-> 0]
    /\ trace = InitialTrace

AnalyzeSystemConvergence ==
    /\ pc = "convergence_input"
    /\ LET met == CriteriaMet(ConvergenceCriteria(state))
       IN undeclared' = [undeclared EXCEPT
              !.convergence_score = met,
              !.meta_recommendation =
                  Recommendation(met, state.processing_round, max_processing_rounds)]
    /\ pc' = "convergence_output"
    /\ UNCHANGED <<config, state, meta_agent, results, submitted, trace>>

ConvergenceNext == AnalyzeSystemConvergence

ConvergenceSpec == ConvergenceInit /\ [][ConvergenceNext]_vars

\* --------------------------------------------------- ResearchOrchestrator
\* orchestrator.py: fetch_urls -> analyze_url (repeated while the backlog is
\* non-empty) -> compile_results -> evaluate_results -> process_feedback.
\* Its state has only declared keys.  analyze_url removes the head of
\* urls_to_process in place, so the removal is seen by the next node.
ResearchInit ==
    /\ pc = "fetch_urls"
    /\ max_processing_rounds = 1
    /\ keep_undeclared = FALSE
    /\ zero_deadline = FALSE
    /\ coordination_strategy = "sequential"
    /\ state = InitialState
    /\ undeclared = NoUndeclared
    /\ meta_agent = InitialMetaAgent
    /\ results = NoResults
    /\ submitted = [u \in AllUrls |-> 0]
    /\ trace = InitialTrace

\* _fetch_urls_node: the urls of the scraper, cut to max_cases
FetchUrls ==
    /\ pc = "fetch_urls"
    /\ \E n \in BacklogSizes :
          /\ state' = [state EXCEPT !.urls_to_process = Urls(n)]
          /\ trace' = [trace EXCEPT !.backlog = n, !.last_step = "fetch_urls",
                                    !.last_raised = FALSE]
    /\ pc' = "analyze_url"
    /\ UNCHANGED <<config, undeclared, meta_agent, results, submitted>>

_decide_next_step_once(st) == "finish"

\* _decide_next_step
_decide_next_step(st) == IF st.urls_to_process # <<>> THEN "continue" ELSE "finish"

\* what fetch and analyze_press_release gave for the url
AnalyzeOutcomes == {"case", "no_case", "no_content", "raised"}

\* the list an analyze_url that only read urls_to_process[0] would leave
Pop0_keeps_head(urls) == urls

\* the url list after url = state["urls_to_process"].pop(0)
Pop0(urls) == Tail(urls)

\* _analyze_url_node on a non-empty backlog
AnalyzeUrl ==
    /\ pc = "analyze_url"
    /\ state.urls_to_process # <<>>
    /\ LET url == Head(state.urls_to_process)
           rest == Pop0(state.urls_to_process)
       IN \E outcome \in AnalyzeOutcomes :
            LET st == IF outcome = "case"
                      THEN [state EXCEPT !.urls_to_process = rest,
                                         !.analyzed_cases = @ \o <<[url |-> url]>>]
                      ELSE [state EXCEPT !.urls_to_process = rest,
                                         !.failed_urls = @ \o <<url>>]
            IN /\ state' = st
               /\ submitted' = [submitted EXCEPT ![url] = @ + 1]
               /\ pc' = IF _decide_next_step(st) = "continue"
                        THEN "analyze_url" ELSE "compile_results"
               /\ trace' = [trace EXCEPT !.last_step = "analyze_url", !.last_raised = FALSE,
                               !.collaborator_failed = @ \/ outcome # "case"]
    /\ UNCHANGED <<config, undeclared, meta_agent, results>>

\* _analyze_url_node on an empty backlog: pop(0) raises IndexError, which
\* nothing in run() catches
AnalyzeUrlEmpty ==
    /\ pc = "analyze_url"
    /\ state.urls_to_process = <<>>
    /\ pc' = "raised"
    /\ trace' = [trace EXCEPT !.last_step = "analyze_url", !.last_raised = TRUE,
                              !.step_failed = TRUE,
                              !.escaped = TRUE]
    /\ UNCHANGED <<config, state, undeclared, meta_agent, results, submitted>>

\* _compile_results_node
CompileResults ==
    /\ pc = "compile_results"
    /\ state' = [state EXCEPT !.final_result =
          [present |-> TRUE, cases |-> Len(state.analyzed_cases),
           total_cases |-> Len(state.analyzed_cases) + Len(state.failed_urls),
           successful_extractions |-> Len(state.analyzed_cases),
           failed_extractions |-> Len(state.failed_urls)]]
    /\ pc' = "evaluate_results"
    /\ trace' = [trace EXCEPT !.last_step = "compile_results", !.last_raised = FALSE]
    /\ UNCHANGED <<config, undeclared, meta_agent, results, submitted>>

\* _evaluate_results_node
EvaluateResults ==
    /\ pc = "evaluate_results"
    /\ state' = [state EXCEPT !.evaluation_result = (state.analyzed_cases # <<>>)]
    /\ pc' = "process_feedback"
    /\ trace' = [trace EXCEPT !.last_step = "evaluate_results", !.last_raised = FALSE]
    /\ UNCHANGED <<config, undeclared, meta_agent, results, submitted>>

\* _process_feedback_node, then run() returns final_state["final_result"]
ProcessFeedback ==
    /\ pc = "process_feedback"
    /\ results' = [NoResults EXCEPT !.returned = TRUE,
                      !.has_final_result = state.final_result.present,
                      !.records = state.final_result.cases]
    /\ pc' = "end"
    /\ trace' = [trace EXCEPT !.last_step = "process_feedback", !.last_raised = FALSE]
    /\ UNCHANGED <<config, state, undeclared, meta_agent, submitted>>

ResearchNext ==
    \/ FetchUrls
    \/ AnalyzeUrl
    \/ AnalyzeUrlEmpty
    \/ CompileResults
    \/ EvaluateResults
    \/ ProcessFeedback

ResearchSpec == ResearchInit /\ [][ResearchNext]_vars

\* ------------------------------------------------ strategy selection alone
\* _analyze_system_state and _make_strategic_decisions applied twice to the
\* same workflow state, the round counter advanced in between.  The inputs
\* cover every branch of the selection: backlogs around the thresholds 10 and
\* 20, case and failure counts, queues with 0..7 distinct sender/receiver
\* pairs, every current strategy.
InteractionPairs ==
    <<Message(META, RESEARCH, "meta_guidance"),
      Message(META, EVALUATION, "meta_guidance"),
      Message(META, LEGAL, "meta_guidance"),
      Message(LEGAL, EVALUATION, "legal_accuracy_feedback"),
      Message(LEGAL, RESEARCH, "regulatory_updates"),
      Message(EVALUATION, RESEARCH, "coordination_feedback"),
      Message(EVALUATION, LEGAL, "coordination_feedback")>>

StrategyBacklogs == {0, 1, 11, BACKLOG_BOTTLENECK + 1}

StrategyInit ==
    /\ pc = "strategy_first"
    /\ max_processing_rounds \in 1..MaxRounds
    /\ keep_undeclared = TRUE
    /\ zero_deadline = FALSE
    /\ coordination_strategy = "sequential"
    /\ \E pending \in StrategyBacklogs, analyzed \in 0..MaxCases, failed \in 0..MaxFailed,
          pairs \in 0..Len(InteractionPairs), current_round \in 0..MaxRounds :
          state = [InitialState EXCEPT
                     !.urls_to_process = [i \in 1..pending |-> MaxCases + MaxFailed + i],
                     !.analyzed_cases = Cases(analyzed),
                     !.failed_urls = [i \in 1..failed |-> MaxCases + i],
                     !.agent_communication_queue = Take(InteractionPairs, pairs),
                     !.processing_round = current_round]
    /\ undeclared = NoUndeclared
    /\ \E current \in CoordinationStrategy :
          meta_agent = [InitialMetaAgent EXCEPT
                          !.coordination_strategy = current,
                          !.processing_round = state.processing_round]
    /\ results = NoResults
    /\ submitted = [u \in AllUrls |-> 0]
    /\ trace = InitialTrace

\* steps 1 and 2 of MetaAgent.process and the assignment of the decided
\* strategy by _meta_agent_control_node
SelectStrategy ==
    /\ pc \in {"strategy_first", "strategy_second"}
    /\ LET strategy == DecideStrategy(state)
       IN meta_agent' = [meta_agent EXCEPT
              !.decision_history = AppendDecision(@, strategy),
              !.coordination_strategy = strategy]
    /\ pc' = IF pc = "strategy_first" THEN "strategy_advance" ELSE "strategy_selected"
    /\ UNCHANGED <<config, state, undeclared, results, submitted, trace>>

\* the round counter moves on and nothing else changes
AdvanceRound ==
    /\ pc = "strategy_advance"
    /\ state' = [state EXCEPT !.processing_round = @ + 1]
    /\ meta_agent' = [meta_agent EXCEPT !.processing_round = @ + 1]
    /\ pc' = "strategy_second"
    /\ UNCHANGED <<config, undeclared, results, submitted, trace>>

StrategyNext ==
    \/ SelectStrategy
    \/ AdvanceRound

StrategySpec == StrategyInit /\ [][StrategyNext]_vars

\* ------------------------------------------------------- SharedMemoryStore
\* SharedMemoryStore and AgentMemory (core/multi_agent_models.py) and
\* BaseAgent.communicate_with_agent, which writes to the store through the
\* shared_memory key of the state.  Timestamps are left out of the entries.
None == "None"

KeepLast(s, cap) == IF Len(s) > cap THEN SubSeq(s, Len(s) - cap + 1, Len(s)) ELSE s

knowledge_key(source_agent, target_agent, key) ==
    source_agent \o "_to_" \o target_agent \o "_" \o key

share_knowledge(store, source_agent, target_agent, key, value) ==
    LET knowledge_key_ == knowledge_key(source_agent, target_agent, key)
        entry == [source |-> source_agent, target |-> target_agent, key |-> key,
                  message_id |-> Len(store.communication_log)]
    IN [store EXCEPT
          !.cross_agent_knowledge =
              [x \in DOMAIN @ \cup {knowledge_key_} |->
                  IF x = knowledge_key_
                  THEN [value |-> value, source |-> source_agent, target |-> target_agent]
                  ELSE @[x]],
          !.communication_log = KeepLast(Append(@, entry), COMMUNICATION_LOG_CAP)]

get_shared_knowledge(store, source_agent, target_agent, key) ==
    LET knowledge_key_ == knowledge_key(source_agent, target_agent, key)
    IN IF knowledge_key_ \in DOMAIN store.cross_agent_knowledge
       THEN store.cross_agent_knowledge[knowledge_key_].value
       ELSE None

add_global_insight(store, insight) ==
    [store EXCEPT
       !.global_insights =
           KeepLast(Append(@, [insight |-> insight, insight_id |-> Len(@)]),
                    GLOBAL_INSIGHTS_CAP)]

add_pattern_keeps_oldest(memory, pattern) ==
    [memory EXCEPT
       !.learned_patterns =
           Take(Append(@, [pattern |-> pattern, agent_id |-> memory.agent_id]),
                LEARNED_PATTERNS_CAP)]

add_pattern(memory, pattern) ==
    [memory EXCEPT
       !.learned_patterns =
           KeepLast(Append(@, [pattern |-> pattern, agent_id |-> memory.agent_id]),
                    LEARNED_PATTERNS_CAP)]

add_interaction(memory, interaction) ==
    [memory EXCEPT
       !.interaction_history =
           KeepLast(Append(@, [interaction |-> interaction, agent_id |-> memory.agent_id]),
                    INTERACTION_HISTORY_CAP)]

AgentMemory(agent_id) ==
    [agent_id |-> agent_id, learned_patterns |-> <<>>, interaction_history |-> <<>>]

StoreAgents == {RESEARCH, EVALUATION}

SharedMemoryStore ==
    [agent_memories |-> [a \in StoreAgents |-> AgentMemory(a)],
     cross_agent_knowledge |-> [x \in {} |-> None],
     communication_log |-> <<>>,
     global_insights |-> <<>>]

\* the state with its shared_memory key
WithSharedMemory(st, store) ==
    [f \in DOMAIN st \cup {"shared_memory"} |->
        IF f = "shared_memory" THEN store ELSE st[f]]

\* ---------------------------------------------------------- store harness
\* The capped lists under appends.  A list starts empty or filled to its
\* cap, as it is after that many earlier appends; trace holds the full
\* sequence of entries ever appended to each list.
GuidanceLog(n) ==
    [i \in 1..n |-> [source |-> META, target |-> RESEARCH, key |-> "meta_guidance",
                     message_id |-> i - 1]]

GuidanceQueue(n) == [i \in 1..n |-> Message(META, RESEARCH, "meta_guidance")]

GuidanceKnowledge(n) ==
    IF n = 0 THEN [x \in {} |-> None]
    ELSE [x \in {knowledge_key(META, RESEARCH, "meta_guidance")} |->
             [value |-> "d1", source |-> META, target |-> RESEARCH]]

EarlierInsights(n) == [i \in 1..n |-> [insight |-> "i1", insight_id |-> i - 1]]

EarlierPatterns(a, n) == [i \in 1..n |-> [pattern |-> "p1", agent_id |-> a]]

EarlierInteractions(a, n) == [i \in 1..n |-> [interaction |-> "x1", agent_id |-> a]]

EarlierDecisions(n) == [i \in 1..n |-> "adaptive"]

Earlier(full, cap) == IF full THEN cap ELSE 0

StoreInit ==
    /\ pc = "store"
    /\ max_processing_rounds = 1
    /\ keep_undeclared = TRUE
    /\ zero_deadline = FALSE
    /\ coordination_strategy = "sequential"
    /\ \E full \in BOOLEAN, pending \in {0, BACKLOG_BOTTLENECK + 1} :
          LET sent == Earlier(full, COMMUNICATION_LOG_CAP)
              insights == Earlier(full, GLOBAL_INSIGHTS_CAP)
              patterns == Earlier(full, LEARNED_PATTERNS_CAP)
              interactions == Earlier(full, INTERACTION_HISTORY_CAP)
              decisions == Earlier(full, DECISION_HISTORY_CAP)
              store == [agent_memories |->
                            [a \in StoreAgents |->
                                [agent_id |-> a,
                                 learned_patterns |-> EarlierPatterns(a, patterns),
                                 interaction_history |-> EarlierInteractions(a, interactions)]],
                        cross_agent_knowledge |-> GuidanceKnowledge(sent),
                        communication_log |-> GuidanceLog(sent),
                        global_insights |-> EarlierInsights(insights)]
          IN /\ state = WithSharedMemory(
                           [InitialState EXCEPT
                              !.urls_to_process = Urls(pending),
                              !.agent_communication_queue = GuidanceQueue(sent)],
                           store)
             /\ meta_agent = [InitialMetaAgent EXCEPT
                                !.decision_history = EarlierDecisions(decisions)]
             /\ trace = [appends |-> 0,
                         agent_communication_queue |-> GuidanceQueue(sent),
                         communication_log |-> GuidanceLog(sent),
                         global_insights |-> EarlierInsights(insights),
                         learned_patterns |->
                             [a \in StoreAgents |-> EarlierPatterns(a, patterns)],
                         interaction_history |->
                             [a \in StoreAgents |-> EarlierInteractions(a, interactions)],
                         decision_history |-> EarlierDecisions(decisions)]
    /\ undeclared = NoUndeclared
    /\ results = NoResults
    /\ submitted = [u \in AllUrls |-> 0]

\* BaseAgent.communicate_with_agent: the message goes to the queue of the
\* state and, through share_knowledge, to the store
communicate_with_agent ==
    /\ pc = "store"
    /\ trace.appends < MaxAppends
    /\ \E target_agent \in StoreAgents, message_type \in {"meta_guidance", "coordination_feedback"} :
          LET message == Message(META, target_agent, message_type)
              store == share_knowledge(state.shared_memory, META, target_agent,
                                       message_type, "d1")
          IN /\ state' = [state EXCEPT
                            !.agent_communication_queue = Append(@, message),
                            !.shared_memory = store]
             /\ trace' = [trace EXCEPT
                            !.appends = @ + 1,
                            !.agent_communication_queue = Append(@, message),
                            !.communication_log =
                                Append(@, store.communication_log[Len(store.communication_log)])]
    /\ UNCHANGED <<pc, config, undeclared, meta_agent, results, submitted>>

AddPattern ==
    /\ pc = "store"
    /\ trace.appends < MaxAppends
    /\ \E a \in StoreAgents, pattern \in {"p1", "p2"} :
          /\ state' = [state EXCEPT
                         !.shared_memory.agent_memories[a] = add_pattern(@, pattern)]
          /\ trace' = [trace EXCEPT
                         !.appends = @ + 1,
                         !.learned_patterns[a] =
                             Append(@, [pattern |-> pattern, agent_id |-> a])]
    /\ UNCHANGED <<pc, config, undeclared, meta_agent, results, submitted>>

AddInteraction ==
    /\ pc = "store"
    /\ trace.appends < MaxAppends
    /\ \E a \in StoreAgents, interaction \in {"x1", "x2"} :
          /\ state' = [state EXCEPT
                         !.shared_memory.agent_memories[a] = add_interaction(@, interaction)]
          /\ trace' = [trace EXCEPT
                         !.appends = @ + 1,
                         !.interaction_history[a] =
                             Append(@, [interaction |-> interaction, agent_id |-> a])]
    /\ UNCHANGED <<pc, config, undeclared, meta_agent, results, submitted>>

AddGlobalInsight ==
    /\ pc = "store"
    /\ trace.appends < MaxAppends
    /\ \E insight \in {"i1", "i2"} :
          LET store == add_global_insight(state.shared_memory, insight)
          IN /\ state' = [state EXCEPT !.shared_memory = store]
             /\ trace' = [trace EXCEPT
                            !.appends = @ + 1,
                            !.global_insights =
                                Append(@, store.global_insights[Len(store.global_insights)])]
    /\ UNCHANGED <<pc, config, undeclared, meta_agent, results, submitted>>

\* the decision record of MetaAgent._make_strategic_decisions
MakeStrategicDecisions ==
    /\ pc = "store"
    /\ trace.appends < MaxAppends
    /\ LET strategy == DecideStrategy(state)
       IN /\ meta_agent' = [meta_agent EXCEPT
                              !.decision_history = AppendDecision(@, strategy)]
          /\ trace' = [trace EXCEPT
                         !.appends = @ + 1,
                         !.decision_history = Append(@, strategy)]
    /\ UNCHANGED <<pc, config, state, undeclared, results, submitted>>

StoreNext ==
    \/ communicate_with_agent
    \/ AddPattern
    \/ AddInteraction
    \/ AddGlobalInsight
    \/ MakeStrategicDecisions

StoreSpec == StoreInit /\ [][StoreNext]_vars

\* ------------------------------------------------------ knowledge harness
\* share_knowledge and get_shared_knowledge over agent ids and keys that are
\* plain strings, as the signatures take them; trace.shares is the sequence
\* of the shares made.
KnowledgeSources == {META, EVALUATION}
KnowledgeTargets == {"research", RESEARCH}
KnowledgeKeys == {"guidance", "agent_guidance"}
KnowledgeValues == {"v1", "v2"}

KnowledgeInit ==
    /\ pc = "knowledge"
    /\ max_processing_rounds = 1
    /\ keep_undeclared = TRUE
    /\ zero_deadline = FALSE
    /\ coordination_strategy = "sequential"
    /\ state = WithSharedMemory(InitialState, SharedMemoryStore)
    /\ undeclared = NoUndeclared
    /\ meta_agent = InitialMetaAgent
    /\ results = NoResults
    /\ submitted = [u \in AllUrls |-> 0]
    /\ trace = [shares |-> <<>>]

ShareKnowledge ==
    /\ pc = "knowledge"
    /\ Len(trace.shares) < MaxShares
    /\ \E s \in KnowledgeSources, t \in KnowledgeTargets, k \in KnowledgeKeys,
          v \in KnowledgeValues :
          /\ state' = [state EXCEPT !.shared_memory = share_knowledge(@, s, t, k, v)]
          /\ trace' = [trace EXCEPT !.shares =
                          Append(@, [source |-> s, target |-> t, key |-> k, value |-> v])]
    /\ UNCHANGED <<pc, config, undeclared, meta_agent, results, submitted>>

KnowledgeNext == ShareKnowledge

KnowledgeSpec == KnowledgeInit /\ [][KnowledgeNext]_vars

\* the value of the most recent share made for exactly (s, t, k)
RECURSIVE LastShared(_, _, _, _)
LastShared(shares, s, t, k) ==
    IF shares = <<>> THEN None
    ELSE LET last == shares[Len(shares)]
         IN IF last.source = s /\ last.target = t /\ last.key = k
            THEN last.value
            ELSE LastShared(SubSeq(shares, 1, Len(shares) - 1), s, t, k)

\* ----------------------------------------------------------- batch harness
\* _execute_agent_group_parallel on the group of two that
\* _generate_execution_plan forms, over states with and without analyzed
\* cases.  Every task gets the same state dict.  No await in an agent's
\* process suspends (generate_llm_response ends in a synchronous call of the
\* LLMManager), so the event loop runs the tasks one after the other in the
\* order of their creation; gather returns when all are done and the results
\* are then merged in the order of the group.
BatchGroup == <<RESEARCH, LEGAL>>

\* BaseAgent.get_agent_messages: the messages of the queue addressed to agent
MessagesTo(agent, queue) == SelectSeq(queue, LAMBDA message : message.to = agent)

\* BaseAgent.communicate_with_agent for each of the messages
RECURSIVE SendAll(_, _)
SendAll(st, messages) ==
    IF messages = <<>> THEN st
    ELSE LET message == Head(messages)
         IN SendAll([st EXCEPT
                       !.agent_communication_queue = Append(@, message),
                       !.shared_memory = share_knowledge(@, message.from, message.to,
                                                         message.type, "d1")],
                    Tail(messages))

\* the state dict after the task of agent ran on it
RunTask(agent, st, outcome) ==
    IF outcome = "ok" THEN SendAll(st, AgentMessages(agent, st)) ELSE st

RECURSIVE RunTasks(_, _, _)
RunTasks(order, outcome, st) ==
    IF order = <<>> THEN st
    ELSE RunTasks(Tail(order), outcome, RunTask(Head(order), st, outcome[Head(order)]))

\* keys of the dict an agent's process returns
ResultKeys(agent, st) ==
    CASE agent = RESEARCH ->
            (IF st.urls_to_process # <<>>
             THEN {"research_insights", "urls_to_process", "processed_urls_count"} ELSE {})
            \cup (IF st.analyzed_cases # <<>> THEN {"research_agent_state"} ELSE {})
      [] agent = LEGAL ->
            (IF st.analyzed_cases # <<>> THEN {"precedent_analysis"} ELSE {})
            \cup {"regulatory_analysis", "legal_validation", "jurisdictional_analysis",
                  "legal_intelligence_agent_state"}

\* what a task writes: the keys of its result and the objects of the state
\* dict it changes in place
WrittenKeys(agent, st) ==
    ResultKeys(agent, st)
    \cup (IF AgentMessages(agent, st) # <<>>
          THEN {"agent_communication_queue", "shared_memory.communication_log"} ELSE {})

\* state.update(result) for one result
UpdateWith(agent, st, processed) ==
    CASE agent = RESEARCH ->
            [st EXCEPT
               !.urls_to_process = RemainingUrls(@, processed),
               !.research_agent_state =
                   IF st.analyzed_cases # <<>>
                   THEN [present |-> TRUE, cases_analyzed |-> Len(st.analyzed_cases)]
                   ELSE @]
      [] agent = LEGAL ->
            [st EXCEPT !.legal_intelligence_agent_state = [present |-> TRUE]]

\* the loop over zip(tasks, results)
RECURSIVE MergeResults(_, _, _, _)
MergeResults(order, outcome, st, processed) ==
    IF order = <<>> THEN st
    ELSE MergeResults(Tail(order), outcome,
                      IF outcome[Head(order)] = "ok"
                      THEN UpdateWith(Head(order), st, processed) ELSE st,
                      processed)

Reverse(s) == [i \in 1..Len(s) |-> s[Len(s) + 1 - i]]

BatchInit ==
    /\ pc = "batch_created"
    /\ max_processing_rounds = 1
    /\ keep_undeclared = TRUE
    /\ zero_deadline = FALSE
    /\ coordination_strategy = "parallel"
    /\ \E pending \in 0..MaxFailed, analyzed \in 0..MaxFailed,
          pairs \in 0..Len(InteractionPairs) :
          state = WithSharedMemory(
                     [InitialState EXCEPT
                        !.urls_to_process = [i \in 1..pending |-> MaxCases + i],
                        !.analyzed_cases = Cases(analyzed),
                        !.agent_communication_queue = Take(InteractionPairs, pairs)],
                     SendAll([agent_communication_queue |-> <<>>,
                              shared_memory |-> SharedMemoryStore],
                             Take(InteractionPairs, pairs)).shared_memory)
    /\ undeclared = NoUndeclared
    /\ meta_agent = InitialMetaAgent
    /\ results = NoResults
    /\ submitted = [u \in AllUrls |-> 0]
    /\ trace = [snapshot |-> state, started |-> 0,
                outcome |-> [a \in SeqToSet(BatchGroup) |-> "none"],
                observed |-> [a \in SeqToSet(BatchGroup) |-> <<>>],
                written |-> [a \in SeqToSet(BatchGroup) |-> {}],
                processed |-> {}]

\* the event loop runs the next task of the group to its end
RunNextTask ==
    /\ pc \in {"batch_created", "batch_running"}
    /\ trace.started < Len(BatchGroup)
    /\ LET agent == BatchGroup[trace.started + 1]
           batch == ResearchBatch(state.urls_to_process)
       IN \E outcome \in {"ok", "raise"}, processed \in SUBSET SeqToSet(batch) :
            /\ (agent # RESEARCH \/ outcome # "ok") => processed = {}
            /\ state' = RunTask(agent, state, outcome)
            /\ trace' = [trace EXCEPT
                           !.started = @ + 1,
                           !.outcome[agent] = outcome,
                           !.observed[agent] =
                               IF outcome = "ok"
                               THEN MessagesTo(agent, state.agent_communication_queue)
                               ELSE @,
                           !.written[agent] =
                               IF outcome = "ok" THEN WrittenKeys(agent, state) ELSE @,
                           !.processed = IF agent = RESEARCH THEN processed ELSE @]
    /\ pc' = "batch_running"
    /\ UNCHANGED <<config, undeclared, meta_agent, results, submitted>>

\* asyncio.gather returned: the results are recorded and merged
GatherResults ==
    /\ pc = "batch_running"
    /\ trace.started = Len(BatchGroup)
    /\ state' = MergeResults(BatchGroup, trace.outcome, state, trace.processed)
    /\ undeclared' = [undeclared EXCEPT
          !.subagent_results =
              [a \in AgentIds |->
                  IF a \in SeqToSet(BatchGroup)
                  THEN (IF trace.outcome[a] = "ok" THEN "ok" ELSE "error")
                  ELSE "none"]]
    /\ pc' = "batch_done"
    /\ UNCHANGED <<config, meta_agent, results, submitted, trace>>

BatchNext ==
    \/ RunNextTask
    \/ GatherResults

BatchSpec == BatchInit /\ [][BatchNext]_vars

\* ------------------------------------------------- coordination optimization
\* MetaAgent._optimize_coordination, step 4 of MetaAgent.process, on the
\* states it can be called with.  Scores are in ten-thousandths; the float
\* sums 0.7 + 0.15 and 0.85 + 0.05 evaluate to 0.85 and 0.9 and 0.8 + 0.1 to
\* 0.9, while 0.8 - 0.1 evaluates to 0.7000000000000001, above 0.7.
StrategyOrder == <<"sequential", "parallel", "adaptive", "hierarchical", "load_balanced">>

FailureRateAbove20(st) ==
    LET failed == Len(st.failed_urls)
        total == Len(st.analyzed_cases) + failed
    IN 10 * failed > 2 * (IF total < 1 THEN 1 ELSE total)

_evaluate_strategy_fitness(strategy, st) ==
    LET cases_to_process == Len(st.urls_to_process)
        queued == Len(st.agent_communication_queue)
        base_score == CASE strategy = "sequential" -> 7000
                        [] strategy = "parallel" -> 8000
                        [] strategy = "adaptive" -> 8500
                        [] strategy = "load_balanced" -> 7500
                        [] strategy = "hierarchical" -> 7200
        adjusted ==
            CASE strategy = "parallel" /\ cases_to_process > 10 -> base_score + 1000
              [] strategy = "parallel" /\ cases_to_process < 3 -> base_score - 1000 + 1
              [] strategy = "sequential" /\ FailureRateAbove20(st) -> base_score + 1500
              [] strategy = "adaptive" /\ 10 * queued < 8 * 20 -> base_score + 500
              [] OTHER -> base_score
    IN Min(adjusted, 10000)

\* max(strategy_scores.items(), key=...) over a dict filled in enum order:
\* the first strategy of the enum that has the maximal score
RECURSIVE FirstMaximal(_, _, _)
FirstMaximal(order, st, best) ==
    IF order = <<>> THEN best
    ELSE FirstMaximal(Tail(order), st,
            IF _evaluate_strategy_fitness(Head(order), st) > _evaluate_strategy_fitness(best, st)
            THEN Head(order) ELSE best)

_optimize_coordination(st, ma) ==
    [current_strategy |-> ma.coordination_strategy,
     recommended_strategy |-> FirstMaximal(Tail(StrategyOrder), st, Head(StrategyOrder)),
     strategy_scores |-> [s \in CoordinationStrategy |-> _evaluate_strategy_fitness(s, st)]]

\* queue lengths on both sides of the system_load threshold (16 of 20)
OptimizeQueues == {0, Len(InteractionPairs), 16}

QueueOfLength(n) ==
    [i \in 1..n |-> InteractionPairs[((i - 1) % Len(InteractionPairs)) + 1]]

OptimizeInit ==
    /\ pc = "optimize"
    /\ max_processing_rounds = 1
    /\ keep_undeclared = TRUE
    /\ zero_deadline = FALSE
    /\ coordination_strategy = "sequential"
    /\ \E pending \in StrategyBacklogs, analyzed \in 0..MaxCases, failed \in 0..MaxFailed,
          queued \in OptimizeQueues :
          state = [InitialState EXCEPT
                     !.urls_to_process = [i \in 1..pending |-> MaxCases + MaxFailed + i],
                     !.analyzed_cases = Cases(analyzed),
                     !.failed_urls = [i \in 1..failed |-> MaxCases + i],
                     !.agent_communication_queue = QueueOfLength(queued)]
    /\ undeclared = NoUndeclared
    /\ \E current \in CoordinationStrategy :
          meta_agent = [InitialMetaAgent EXCEPT !.coordination_strategy = current]
    /\ results = NoResults
    /\ submitted = [u \in AllUrls |-> 0]
    /\ trace = [optimization |-> [current_strategy |-> None, recommended_strategy |-> None,
                                  strategy_scores |-> [s \in CoordinationStrategy |-> 0]]]

OptimizeCoordination ==
    /\ pc = "optimize"
    /\ trace' = [trace EXCEPT !.optimization = _optimize_coordination(state, meta_agent)]
    /\ pc' = "optimized"
    /\ UNCHANGED <<config, state, undeclared, meta_agent, results, submitted>>

OptimizeNext == OptimizeCoordination

OptimizeSpec == OptimizeInit /\ [][OptimizeNext]_vars

\* ------------------------------------------------- evaluation step alone
\* _meta_evaluation_node and the routing of _meta_should_continue applied to
\* the workflow states of ConvergenceInit at the end of a round, with round
\* caps up to one above MaxRounds so that a round before the last one can
\* meet the meta_rounds_sufficient criterion.
EvaluationInit ==
    /\ pc = "meta_evaluation"
    /\ max_processing_rounds \in 1..(MaxRounds + 1)
    /\ keep_undeclared \in BOOLEAN
    /\ zero_deadline = FALSE
    /\ coordination_strategy = "sequential"
    /\ \E pending \in 0..1, analyzed \in {0, MIN_CASES}, failed \in 0..1,
          evaluated \in BOOLEAN, current_round \in 0..MaxRounds :
          /\ current_round < max_processing_rounds
          /\ state = [InitialState EXCEPT
                        !.urls_to_process = [i \in 1..pending |-> MaxCases + MaxFailed + i],
                        !.analyzed_cases = Cases(analyzed),
                        !.failed_urls = [i \in 1..failed |-> MaxCases + i],
                        !.evaluation_result = evaluated,
                        !.processing_round = current_round]
    /\ undeclared = NoUndeclared
    /\ meta_agent = [InitialMetaAgent EXCEPT !.processing_round = state.processing_round]
    /\ results = NoResults
    /\ submitted = [u \in AllUrls |-> 0]
    /\ trace = InitialTrace

EvaluationNext ==
    \/ MetaEvaluation
    \/ MetaEvaluationRaises

EvaluationSpec == EvaluationInit /\ [][EvaluationNext]_vars

\* =================================================================== claims
\* C1: the Evaluate step runs at most max_processing_rounds times in a run,
\* and after its max_processing_rounds-th execution the next step is Finalize,
\* whatever the recommendation says and whatever raised in the rounds.
C1_RoundCapEnforced ==
    /\ trace.evaluate_count <= max_processing_rounds
    /\ (trace.evaluate_count = max_processing_rounds /\ trace.last_step = "meta_evaluation"
          => pc = "finalize_results")
    /\ (pc \in {"meta_coordination", "meta_agent_control", "execute_subagents", "meta_evaluation"}
          => trace.evaluate_count < max_processing_rounds)

\* the cap, not the recommendation, sent a run of several rounds to Finalize
C1_Witness ==
    /\ pc = "finalize_results"
    /\ max_processing_rounds >= 2
    /\ trace.evaluate_count = max_processing_rounds
    /\ keep_undeclared
    /\ undeclared.meta_evaluation_completed
    /\ undeclared.meta_recommendation = "continue"

\* C2: processing_round starts at 0, each execution of the Evaluate step adds
\* exactly 1 (also when the evaluation raised), no other step changes it.
C2_RoundCounter ==
    /\ state.processing_round = 0
    /\ [][ /\ state'.processing_round >= state.processing_round
           /\ state'.processing_round =
                 IF pc = "meta_evaluation" THEN state.processing_round + 1
                 ELSE state.processing_round ]_vars

\* a failed evaluation was counted after an earlier round
C2_Witness ==
    /\ trace.evaluation_raised
    /\ trace.last_step = "meta_evaluation"
    /\ state.processing_round >= 2

\* C3: run() returns in every case; when an exception left the workflow the
\* returned result has success = false and a non-empty error_log.
C3_RunNeverRaises ==
    /\ (pc = "done" => results.returned)
    /\ (trace.escaped =>
          /\ pc = "done"
          /\ results.returned
          /\ ~results.success
          /\ results.error_log > 0)

\* an exception left the finalize node after complete rounds and run() returned
C3_Witness ==
    /\ trace.escaped
    /\ trace.finalize_count = 1
    /\ results.returned
    /\ ~results.success

\* C4: the convergence score is the number of the five 0/1 criteria that hold
\* divided by five, and the recommendation is finalize exactly when the score
\* is at least 0.8, or the round counter has reached max_processing_rounds, or
\* the score is at least 0.6 and the counter has reached max_processing_rounds - 1.
C4_ConvergenceRule ==
    pc = "convergence_output" =>
        LET b(x) == IF x THEN 1 ELSE 0
            met == b(state.urls_to_process = <<>>)
                   + b(Len(state.analyzed_cases) >= 5)
                   + b(state.evaluation_result)
                   + b(state.processing_round >= 2)
                   + b(10 * Len(state.failed_urls) <= 3 * Len(state.analyzed_cases))
            current_round == state.processing_round
        IN /\ undeclared.convergence_score = met
           /\ undeclared.meta_recommendation \in {"finalize", "continue"}
           /\ undeclared.meta_recommendation = "finalize" <=>
                 \/ 10 * met >= 8 * 5
                 \/ current_round >= max_processing_rounds
                 \/ (10 * met >= 6 * 5 /\ current_round >= max_processing_rounds - 1)

\* three of five criteria one round before the cap: finalize by the last clause
C4_Witness ==
    /\ pc = "convergence_output"
    /\ undeclared.convergence_score = 3
    /\ state.processing_round = max_processing_rounds - 1
    /\ undeclared.meta_recommendation = "finalize"

\* C5 (as claimed): with a backlog of 12 urls, max_processing_rounds = 3 and
\* no failure anywhere, the run finalizes within 3 rounds, success is true and
\* the result holds 12 case records.
C5_ScenarioA ==
    (pc = "done" /\ trace.backlog = SCENARIO_A_BACKLOG /\ max_processing_rounds = 3
        /\ trace.faults = 0)
    => /\ trace.finalize_count = 1
       /\ trace.evaluate_count <= 3
       /\ results.success
       /\ results.records = SCENARIO_A_BACKLOG

\* C6 (as claimed): no url is handed to the extractor's fetch more than once
\* in a run, whatever the round and whether or not its extraction succeeded.
C6_AtMostOnce == \A u \in DOMAIN submitted : submitted[u] <= 1

\* C7: no url is at once in urls_to_process and in analyzed_cases, and no url
\* is in more than one of urls_to_process, analyzed_cases and failed_urls.
C7_CollectionsDisjoint ==
    LET pending == SeqToSet(state.urls_to_process)
        completed == {state.analyzed_cases[i].url : i \in DOMAIN state.analyzed_cases}
        failed == SeqToSet(state.failed_urls)
    IN /\ pending \cap completed = {}
       /\ pending \cap failed = {}
       /\ completed \cap failed = {}

\* all three collections hold something in the middle of a run
C7_Witness ==
    /\ pc = "analyze_url"
    /\ state.urls_to_process # <<>>
    /\ state.analyzed_cases # <<>>
    /\ state.failed_urls # <<>>

C9_FailedStepFinalizesUnsuccessful ==
    /\ (trace.last_step = "meta_evaluation" /\ trace.last_raised) => pc = "finalize_results"
    /\ (trace.evaluation_raised /\ pc = "done") => ~results.success

C11_StrategyIgnoresRound ==
    pc = "strategy_selected" =>
        /\ Len(meta_agent.decision_history) = 2
        /\ meta_agent.decision_history[1] = meta_agent.decision_history[2]
        /\ meta_agent.coordination_strategy = meta_agent.decision_history[1]

\* the second planning ran in round 2 or later and kept a non-default choice
C11_Witness ==
    /\ pc = "strategy_selected"
    /\ state.processing_round >= 2
    /\ meta_agent.decision_history = <<"parallel", "parallel">>

\* C12: every list that AgentMessages are appended to, the communication_log
\* of the store and the agent_communication_queue of the state, holds at most
\* 1000 entries after any number of sends, and holds the most recent ones.
C12_MessageLogsCapped ==
    pc = "store" =>
        /\ Len(state.shared_memory.communication_log) <= COMMUNICATION_LOG_CAP
        /\ state.shared_memory.communication_log =
               KeepLast(trace.communication_log, COMMUNICATION_LOG_CAP)
        /\ Len(state.agent_communication_queue) <= COMMUNICATION_LOG_CAP
        /\ state.agent_communication_queue =
               KeepLast(trace.agent_communication_queue, COMMUNICATION_LOG_CAP)

\* C17: the global insight list (500), each agent's learned patterns (100)
\* and interaction history (200) and the MetaAgent's decision history (50)
\* never exceed their caps; each holds the most recent entries ever appended,
\* in the order of their insertion, so an append to a full list drops exactly
\* the oldest entry.
C17_CappedListsKeepNewest ==
    pc = "store" =>
        /\ Len(state.shared_memory.global_insights) <= GLOBAL_INSIGHTS_CAP
        /\ state.shared_memory.global_insights =
               KeepLast(trace.global_insights, GLOBAL_INSIGHTS_CAP)
        /\ \A a \in StoreAgents :
              LET memory == state.shared_memory.agent_memories[a]
              IN /\ Len(memory.learned_patterns) <= LEARNED_PATTERNS_CAP
                 /\ memory.learned_patterns =
                        KeepLast(trace.learned_patterns[a], LEARNED_PATTERNS_CAP)
                 /\ Len(memory.interaction_history) <= INTERACTION_HISTORY_CAP
                 /\ memory.interaction_history =
                        KeepLast(trace.interaction_history[a], INTERACTION_HISTORY_CAP)
        /\ Len(meta_agent.decision_history) <= DECISION_HISTORY_CAP
        /\ meta_agent.decision_history =
               KeepLast(trace.decision_history, DECISION_HISTORY_CAP)

C17_Witness ==
    /\ pc = "store"
    /\ Len(trace.global_insights) = GLOBAL_INSIGHTS_CAP + 1
    /\ Len(trace.learned_patterns[RESEARCH]) = LEARNED_PATTERNS_CAP + 1
    /\ Len(trace.decision_history) = DECISION_HISTORY_CAP + 1
    /\ state.shared_memory.agent_memories[RESEARCH].learned_patterns[LEARNED_PATTERNS_CAP].pattern = "p2"
    /\ Len(state.shared_memory.agent_memories[RESEARCH].learned_patterns) = LEARNED_PATTERNS_CAP

\* C13: ResearchOrchestrator.run over a non-empty list of n urls analyzes
\* every url exactly once (n runs of the analyze step), every url ends in
\* exactly one of analyzed_cases and failed_urls, and the result has
\* total_cases = n = successful_extractions + failed_extractions, with
\* successful_extractions = n when every fetch and analysis succeeded.
C13_EveryUrlAnalyzedOnce ==
    (pc \in {"evaluate_results", "process_feedback", "end"} /\ trace.backlog > 0) =>
        LET n == trace.backlog
            analyzed == {c.url : c \in SeqToSet(state.analyzed_cases)}
            failed == SeqToSet(state.failed_urls)
            result == state.final_result
        IN /\ \A u \in AllUrls : submitted[u] = IF u \in 1..n THEN 1 ELSE 0
           /\ analyzed \cup failed = 1..n
           /\ analyzed \cap failed = {}
           /\ Len(state.analyzed_cases) = Cardinality(analyzed)
           /\ Len(state.failed_urls) = Cardinality(failed)
           /\ result.present
           /\ result.total_cases = n
           /\ result.successful_extractions + result.failed_extractions = n
           /\ result.successful_extractions = Len(state.analyzed_cases)
           /\ ~trace.collaborator_failed => result.successful_extractions = n

C13_Witness ==
    /\ pc = "end"
    /\ trace.backlog = MaxUrls
    /\ state.final_result.total_cases = MaxUrls
    /\ state.final_result.failed_extractions = 2
    /\ state.failed_urls = <<2, MaxUrls>>

\* C14: get_shared_knowledge(s, t, k) returns the value of the most recent
\* share_knowledge(s, t, k, v), and None when no share was made for exactly
\* that triple; a share for another triple never changes what is read for
\* (s, t, k).
C14_ReadsLastShareOfTriple ==
    pc = "knowledge" =>
        \A s \in KnowledgeSources, t \in KnowledgeTargets, k \in KnowledgeKeys :
            get_shared_knowledge(state.shared_memory, s, t, k) = LastShared(trace.shares, s, t, k)

\* C15: a url for which the extractor failed, raised or returned nothing is
\* recorded as failed: it is no longer in the pending urls the research step
\* hands back and it is in failed_urls; the other urls of the batch were
\* still submitted and the other agents of the round still ran.
C15_FailedItemRecordedFailed ==
    (pc = "meta_evaluation" /\ trace.last_step = "execute_subagents"
        /\ trace.research_batch # <<>>) =>
        \A u \in SeqToSet(trace.research_batch) \ trace.research_processed :
            /\ u \notin SeqToSet(trace.research_remaining)
            /\ u \in SeqToSet(state.failed_urls)
            /\ \A w \in SeqToSet(trace.research_batch) : submitted[w] >= 1
            /\ \A a \in SeqToSet(trace.exec_order) : undeclared.subagent_results[a] # "none"

\* C16: when an agent's process raises during a round, the step does not
\* fail: that agent's result for the round is an error, every other agent
\* scheduled in the round has run and has its result, and an agent that
\* raised in the round before is scheduled and run again in this round.
C16_AgentErrorStaysInRound ==
    [][(pc = "execute_subagents" /\ pc' = "meta_evaluation") =>
          LET plan == ExecutionPlanOf(Seen)
              scheduled == SeqToSet(plan.execution_order)
                               \cup SeqToSet(Flatten(plan.parallel_groups))
          IN /\ ~trace'.last_raised
             /\ \A a \in trace'.process_raised : undeclared'.subagent_results[a] = "error"
             /\ \A a \in scheduled \ trace'.process_raised :
                   undeclared'.subagent_results[a] = "ok"
             /\ \A a \in trace.process_raised :
                   /\ a \in scheduled
                   /\ undeclared'.subagent_results[a] # "none"]_vars

\* C18: round barrier.  When the planning of a round starts, every earlier
\* round has been planned, executed (all its agents returned and the step
\* returned their results) and evaluated; when the agents of a round start,
\* the round has been planned and every earlier round has been executed and
\* evaluated; no round is evaluated before it was executed.
C18_RoundBarrier ==
    /\ pc = "meta_agent_control" =>
          /\ trace.execute_count = trace.plan_count
          /\ trace.evaluate_count = trace.plan_count
    /\ pc = "execute_subagents" =>
          /\ trace.plan_count = trace.execute_count + 1
          /\ trace.evaluate_count = trace.execute_count
    /\ pc = "meta_evaluation" =>
          /\ trace.execute_count = trace.plan_count
          /\ trace.evaluate_count + 1 = trace.execute_count
    /\ pc = "meta_coordination" =>
          /\ trace.execute_count = trace.plan_count
          /\ trace.evaluate_count = trace.plan_count
    /\ trace.evaluate_count <= trace.execute_count
    /\ trace.execute_count <= trace.plan_count
    /\ trace.plan_count <= trace.evaluate_count + 1

C18_Witness ==
    /\ pc = "execute_subagents"
    /\ trace.plan_count = 3
    /\ trace.execute_count = 2
    /\ trace.evaluate_count = 2
    /\ state.processing_round = 2

C21_LoadBalancedOrderCoversAgents ==
    LET plan == undeclared.meta_execution_plan
        order == plan.execution_order
        tasks == meta_agent.in_progress_tasks
    IN (pc = "execute_subagents" /\ plan.present /\ plan.coordination_mode = "load_balanced")
          => /\ Len(order) = Len(managed_agents)
             /\ SeqToSet(order) = SeqToSet(managed_agents)
             /\ \A i \in 1..(Len(order) - 1) :
                   Workload(tasks, order[i]) <= Workload(tasks, order[i + 1])

\* C22: under the adaptive strategy a round is executed in parallel once the
\* agents' success rate has been above 0.8 for a full round: when two rounds
\* have been executed without any failure (success rate 1.0 in both) and
\* the plan of the next round is built for adaptive, that round is executed
\* in parallel.
C22_AdaptivePromotesToParallel ==
    LET plan == ExecutionPlanOf(Seen)
    IN (/\ pc = "execute_subagents"
        /\ plan.coordination_mode = "adaptive"
        /\ trace.execute_count >= 2
        /\ trace.faults = 0
        /\ SeqToSet(trace.exec_order) = SeqToSet(managed_agents))
          => ExecutedInParallel(plan)

\* C23: when two or more strategies share the maximal fitness score and the
\* active strategy is one of them, the recommended strategy is the active one.
C23_TieKeepsCurrentStrategy ==
    LET o == trace.optimization
        best == {s \in CoordinationStrategy :
                    \A t \in CoordinationStrategy : o.strategy_scores[s] >= o.strategy_scores[t]}
    IN (pc = "optimized" /\ Cardinality(best) >= 2 /\ o.current_strategy \in best)
          => o.recommended_strategy = o.current_strategy

\* C24: in a round whose plan step and research step return normally, the
\* url_processing tasks allocated by the plan step are tasks for exactly the
\* first min(backlog size, batch size of the selected strategy) items of the
\* backlog, and the items the research agent processes in the round are
\* exactly the items of those tasks.
C24_ResearchProcessesAllocatedItems ==
    LET tasks == undeclared.task_allocation
        task_urls == [i \in 1..Cardinality({j \in 1..Len(tasks) :
                                              tasks[j].task_type = "url_processing"}) |->
                        tasks[i].url]
        batch_size == _calculate_optimal_batch_size(meta_agent.coordination_strategy)
    IN (/\ pc = "meta_evaluation"
        /\ trace.last_step = "execute_subagents"
        /\ ~trace.plan_raised
        /\ RESEARCH \in SeqToSet(trace.exec_order)
        /\ RESEARCH \notin trace.process_raised)
          => /\ task_urls = Take(state.urls_to_process,
                                 Min(Len(state.urls_to_process), batch_size))
             /\ trace.research_batch = task_urls

\* C25: a call to an agent's process leaves the SharedMemoryStore as it was,
\* and the rest of the shared state with it: whatever the call produces is in
\* the value it returns, and shared state changes only when the results are
\* merged.
C25_ProcessLeavesStoreUnchanged ==
    [][(trace'.started = trace.started + 1)
          => /\ state'.shared_memory = state.shared_memory
             /\ state' = state]_vars

\* C26: the recommendation made by the Evaluate step at the end of round N is
\* the rule applied to round = N, the counter after the step's increment, so
\* when the step ends round max_processing_rounds - 1 with a score of at
\* least 0.6 the next step is Finalize.
C26_AssessmentUsesIncrementedRound ==
    (trace.last_step = "meta_evaluation" /\ ~trace.last_raised /\ keep_undeclared)
       => /\ undeclared.meta_recommendation =
                Recommendation(undeclared.convergence_score, state.processing_round,
                               max_processing_rounds)
          /\ (/\ state.processing_round = max_processing_rounds - 1
              /\ ScoreAtLeast(undeclared.convergence_score, 6))
                => pc = "finalize_results"

\* C27: the coordination effectiveness the MetaAgent computes at the start of
\* a round, distinct sender->receiver pairs of the queue over the maximal
\* number of pairs, is within [0, 1].
C27_EffectivenessWithinUnitInterval ==
    pc = "meta_agent_control"
       => /\ 0 <= UniqueInteractions(state.agent_communication_queue)
          /\ UniqueInteractions(state.agent_communication_queue) <= MaxInteractions

\* C28: when the Coordinate step has changed the strategy (sequential for an
\* overall performance below 0.6, parallel above 0.85) and announced it as
\* expected_strategy, the plan the next round's Plan step builds is a plan
\* for that strategy.
C28_CoordinatedStrategyTakesEffect ==
    (/\ pc = "execute_subagents"
     /\ trace.last_step = "meta_agent_control"
     /\ ~trace.plan_raised
     /\ undeclared.expected_strategy # "none"
     /\ (Seen.overall_system_performance < 600 \/ Seen.overall_system_performance > 850))
       => undeclared.meta_execution_plan.coordination_mode = undeclared.expected_strategy

\* C29: when the work source returns no urls, ResearchOrchestrator.run does
\* not raise, and the result it returns has total_cases = 0,
\* successful_extractions = 0, failed_extractions = 0 and no cases.
C29_EmptySourceReturnsEmptyResult ==
    (pc # "fetch_urls" /\ trace.backlog = 0)
       => /\ ~trace.escaped
          /\ pc # "raised"
          /\ (pc = "end" => /\ results.returned
                            /\ results.records = 0
                            /\ state.final_result.total_cases = 0)

\* C30: the message_id values of the communication_log are strictly
\* increasing in log order (hence pairwise distinct) after any number of
\* share_knowledge calls, also once the log has reached its cap, and so are
\* the insight_id values of the global insight list.
C30_IdsStrictlyIncreasing ==
    LET log == state.shared_memory.communication_log
        insights == state.shared_memory.global_insights
    IN pc = "store"
          => /\ \A i \in 1..(Len(log) - 1) : log[i].message_id < log[i + 1].message_id
             /\ \A i \in 1..(Len(insights) - 1) :
                   insights[i].insight_id < insights[i + 1].insight_id
====
